---- MODULE Spec2Model ----
(***************************************************************************)
(* Request lifecycle of ClaudeCodeCLI.run_completion (src/src/claude_cli.py)*)
(* together with the parts of the Invocation Registry and the Rate-Limit   *)
(* Tracker it drives.  One invocation of the executor is modelled as a      *)
(* state machine whose steps are the pieces of the async generator between *)
(* two suspension points.                                                  *)
(*                                                                         *)
(* Texts (chunk text, exception messages) are sequences of word tokens;    *)
(* str.lower() maps each token to its lower-case token and the substring   *)
(* test "p in s" is the test for a contiguous sub-sequence.                *)
(* Sizes are measured in tokens instead of bytes.                          *)
(***************************************************************************)
EXTENDS Integers, Sequences, FiniteSets, TLC

\* ------------------------------------------------------------------ bounds
MaxChunks == 3          \* longest backend stream explored
max_cache_bytes == 4    \* self.max_cache_size_mb * 1024 * 1024, scaled down

\* ------------------------------------------------------------------- texts
NoText == <<>>
PlainText == <<"Hello">>
LimitText == <<"You've", "hit", "your", "limit">>

\* str.lower() on one token
Lower(tok) ==
    CASE tok = "You've" -> "you've"
      [] tok = "Hello" -> "hello"
      [] tok = "Rate" -> "rate"
      [] tok = "Unauthorized" -> "unauthorized"
      [] tok = "Connection" -> "connection"
      [] tok = "Claude" -> "claude"
      [] tok = "SDK" -> "sdk"
      [] tok = "Timeout" -> "timeout"
      [] tok = "(Europe/Vienna)" -> "(europe/vienna)"
      [] tok = "(Mars/Olympus)" -> "(mars/olympus)"
      [] OTHER -> tok

LowerText(t) == [i \in 1..Len(t) |-> Lower(t[i])]

\* Python's  p in s  on strings
Contains(s, p) ==
    \E i \in 0..(Len(s) - Len(p)) : \A j \in 1..Len(p) : s[i + j] = p[j]

rate_limit_patterns ==
    { <<"hit", "your", "limit">>,
      <<"you've", "hit", "your", "limit">>,
      <<"rate", "limit">>,
      <<"usage", "limit">>,
      <<"quota", "exceeded">>,
      <<"too", "many", "requests">>,
      <<"capacity">>,
      <<"try", "again", "later">> }

\* any(pattern in text_lower for pattern in rate_limit_patterns)
MatchesRateLimit(text) ==
    \E p \in rate_limit_patterns : Contains(LowerText(text), p)

worker_unavailable_signatures ==
    { <<"credit", "balance">>, <<"balance", "is", "too", "low">>,
      <<"rate", "limit">>, <<"authentication", "failed">>,
      <<"unauthorized">>, <<"invalid", "token">>, <<"oauth", "token">>,
      <<"token", "expired">>, <<"401">>, <<"invalid", "api", "key">>,
      <<"exit", "code", "1">> }

\* is_worker_unavailable = any(x in str(e).lower() for x in [...])
is_worker_unavailable(e) ==
    \E x \in worker_unavailable_signatures : Contains(LowerText(e), x)

\* exception messages the backend call can fail with
BackendErrors ==
    { <<"Command", "failed", "with", "exit", "code", "1">>,
      <<"Unauthorized">>,
      <<"Connection", "reset">> }

\* ---------------------------------------------------------------- messages
\* A raw backend message: the Python class of the object (cls), and the
\* attributes / keys the executor looks at.  cls = "dict" is the dictionary
\* style message, every other cls is an SDK object carrying a __dict__.
RawMessages ==
    { [cls |-> "AssistantMessage", type |-> "none", subtype |-> "none", text |-> PlainText],
      [cls |-> "AssistantMessage", type |-> "none", subtype |-> "none", text |-> LimitText],
      [cls |-> "SystemMessage", type |-> "none", subtype |-> "init", text |-> NoText],
      [cls |-> "ResultMessage", type |-> "result", subtype |-> "success", text |-> NoText],
      [cls |-> "dict", type |-> "result", subtype |-> "error_max_turns", text |-> NoText],
      [cls |-> "dict", type |-> "result", subtype |-> "error_during_execution", text |-> NoText] }

\* hasattr(message, '__dict__') and not isinstance(message, dict)
IsObject(raw) == raw.cls # "dict"

\* A chunk as the executor handles and yields it.  src is the position of the
\* backend message it came from (0 for a chunk the executor synthesizes);
\* enc tells whether it is the live dictionary or one decoded from the cache.
Chunk(src, cls, type, subtype, text, enc, is_error, error_message, original_error) ==
    [src |-> src, cls |-> cls, type |-> type, subtype |-> subtype,
     text |-> text, enc |-> enc, is_error |-> is_error,
     error_message |-> error_message, original_error |-> original_error]

\* The message-to-dict conversion: an object is replaced by the dictionary of
\* its public attributes, so its class is "dict" from here on.
ConvertMessage(raw, idx) ==
    IF IsObject(raw)
    THEN Chunk(idx, "dict", raw.type, raw.subtype, raw.text, "live", FALSE, NoText, NoText)
    ELSE Chunk(idx, raw.cls, raw.type, raw.subtype, raw.text, "live", FALSE, NoText, NoText)

\* type(message).__name__
TypeName(message) == message.cls

\* json.dumps(message, default=str) followed by json.loads on replay
JsonRoundTrip(message) == [message EXCEPT !.enc = "json"]

\* len((json.dumps(message) + "\n").encode('utf-8'))
ChunkSize(message) == Len(message.text) + 1

\* the diagnostic chunks the executor synthesizes
Synth(subtype, error_message, original_error) ==
    Chunk(0, "dict", "result", subtype, NoText, "live", TRUE, error_message, original_error)

TimeoutChunk == Synth("timeout_incomplete", <<"timed", "out">>, NoText)
NoCompletionMarkerChunk == Synth("no_completion_marker", <<"may", "be", "incomplete">>, NoText)
IncompleteAfterCrashChunk(e) == Synth("incomplete_after_crash", <<"SDK", "crashed">>, e)
ErrorDuringExecutionChunk(e) == Synth("error_during_execution", e, NoText)

MetadataChunk(discovery_status) ==
    Chunk(0, "dict", "x_claude_metadata", discovery_status, NoText, "live", FALSE, NoText, NoText)

\* -------------------------------------------------------------------- state
VARIABLES
    pc,                    \* position of the generator
    received,              \* chunks_buffer: raw messages received so far
    forwarded,             \* chunks yielded to the caller so far
    cache_enabled,
    cache_size_bytes,
    cache_exists,          \* cache_file.exists()
    cache_lines,           \* contents of the cache file
    response_complete,
    status,                \* Invocation status in the Registry
    cancellation_token,    \* Invocation cancellation signal
    outcome,               \* how the generator ended
    error,                 \* str(e) of the exception the handler caught
    rate_limits,           \* RateLimitTracker._rate_limits (workers with a record)
    enable_file_discovery,
    final_written,         \* final_response.json was written
    metadata_status        \* status field of metadata.json on disk

\* the HTTP boundary (main.py): one request to /v1/chat/completions
VARIABLES
    http_pc,               \* position of the request handler
    stream,                \* request_body.stream
    response_started,      \* the response start (status, headers) was sent
    http_status,           \* status code of the response, 0 before any
    http_headers,          \* headers of the response
    http_body,             \* JSON body of the response
    sse,                   \* SSE events sent on a streaming response
    chunks,                \* chunks / chunks_buffer: chunks taken from the executor
    metadata_chunk,        \* an x_claude_metadata chunk was captured
    executor_raised        \* the exception that left run_completion

\* the Fallback Orchestrator (providers/fallback.py)
VARIABLES
    fb_pc,                 \* position of execute_with_fallback
    primary_tier,
    tiers,                 \* the chain of this call
    tier_i,                \* loop index i into tiers (1-based)
    last_error,
    provider_health,       \* _provider_health: tier id -> ProviderHealth
    attempts,              \* calls of resolve_config_fn / execute_fn so far
    response,              \* what the call returned
    raised                 \* what the call raised

\* the Invocation Registry (cli_session_manager) and its cancel endpoint
VARIABLES
    sessions,              \* id -> Invocation (status "none": not in the map)
    reg_call,              \* the last call made on the Registry
    cancel_status          \* status code of the last POST .../cancel, 0 before

\* the Rate-Limit Tracker (RateLimitTracker, RateLimitError) under a clock
VARIABLES
    now,                   \* datetime.now(), in ticks since local midnight
    advances,              \* how often the clock was advanced
    tracker_rate_limits,   \* RateLimitTracker._rate_limits: worker -> reset time
    rl_call                \* the last call on the tracker and how it ended

\* streaming requests with their Disconnect Monitors (main.py)
VARIABLES
    req_pc,                \* request -> position of generate_streaming_response
    mon_pc,                \* request -> position of monitor_client_disconnect
    connected,             \* request -> the caller is still connected
    streaming_started,     \* request -> the asyncio.Event is set
    cli_session_for_disconnect,  \* request -> Invocation the monitor cancels
    invocations,           \* request -> the Invocation its executor created
    created                \* requests in the order their Invocations were created

\* the process environment under concurrent run_completion calls
VARIABLES
    environ,               \* os.environ: key -> value ("None": not set)
    env_pc,                \* request -> position of its run_completion
    original_env           \* request -> its original_env dict

\* the health tracker as the /health endpoint sees it
VARIABLES
    health_call,           \* the last call on the health tracker
    health_report          \* the last result of get_all_provider_health

execVars == <<pc, received, forwarded, cache_enabled, cache_size_bytes,
              cache_exists, cache_lines, response_complete, status,
              cancellation_token, outcome, error, rate_limits,
              enable_file_discovery, final_written, metadata_status>>

httpVars == <<http_pc, stream, response_started, http_status, http_headers,
              http_body, sse, chunks, metadata_chunk, executor_raised>>

fbVars == <<fb_pc, primary_tier, tiers, tier_i, last_error, provider_health,
            attempts, response, raised>>

regVars == <<sessions, reg_call, cancel_status>>

\* the components beside the executor, the HTTP boundary and the orchestrator
rlVars == <<now, advances, tracker_rate_limits, rl_call>>

monVars == <<req_pc, mon_pc, connected, streaming_started,
             cli_session_for_disconnect, invocations, created>>

envVars == <<environ, env_pc, original_env>>

healthVars == <<health_call, health_report>>

auxVars == <<regVars, rlVars, monVars, envVars, healthVars>>

coreVars == <<execVars, httpVars, fbVars>>

vars == <<execVars, httpVars, fbVars, auxVars>>

worker_id == "worker"

\* JSON bodies at the HTTP boundary: the error type and the retry flag
Body(type, retry) == [type |-> type, retry |-> retry]
NoBody == Body("none", FALSE)

\* no request at the HTTP boundary
HttpIdle ==
    /\ http_pc = "idle"
    /\ stream = FALSE
    /\ response_started = FALSE
    /\ http_status = 0
    /\ http_headers = {}
    /\ http_body = NoBody
    /\ sse = <<>>
    /\ chunks = <<>>
    /\ metadata_chunk = FALSE
    /\ executor_raised = "None"

\* provider tier ids
Tiers == {"claude-premium", "openrouter-claude", "claude-dsgvo"}

\* exceptions as the orchestrator sees them: class, status_code, str(e)
Exc(cls, status_code, msg) ==
    [cls |-> cls, status_code |-> status_code, msg |-> msg]

\* None where an exception is expected
NoExc == Exc("None", 0, NoText)

\* the response execute_fn returns for a tier
Response(tier_id) == [from |-> tier_id]
NoResponse == Response("None")

\* ProviderHealth() as created by get_provider_health; tracked tells whether
\* the tier has an entry in _provider_health
ProviderHealth(tracked, consecutive_failures, last_error_msg) ==
    [tracked |-> tracked, consecutive_failures |-> consecutive_failures,
     last_error_msg |-> last_error_msg]

\* no call of the orchestrator, _provider_health = {}
FbIdle ==
    /\ fb_pc = "idle"
    /\ primary_tier = "None"
    /\ tiers = <<>>
    /\ tier_i = 0
    /\ last_error = NoExc
    /\ provider_health = [t \in Tiers |-> ProviderHealth(FALSE, 0, NoText)]
    /\ attempts = <<>>
    /\ response = NoResponse
    /\ raised = NoExc

\* the executor before run_completion is called
ExecIdle ==
    /\ pc = "init"
    /\ received = <<>>
    /\ forwarded = <<>>
    /\ cache_enabled = TRUE
    /\ cache_size_bytes = 0
    /\ cache_exists = FALSE
    /\ cache_lines = <<>>
    /\ response_complete = FALSE
    /\ status = "none"
    /\ cancellation_token = FALSE
    /\ outcome = "none"
    /\ error = NoText
    /\ rate_limits = {}
    /\ enable_file_discovery = FALSE
    /\ final_written = FALSE
    /\ metadata_status = "none"

\* ids of invocations, standing for the uuid4 values create_session draws
MaxSessions == 2
SessionIds == 1..MaxSessions

\* an Invocation: status "none" stands for an id that is not in the map
Session(st, token) == [status |-> st, cancellation_token |-> token]
NoSession == Session("none", FALSE)

\* a call on the Registry: operation, id, status argument, return value
RegCall(op, id, arg, ret) == [op |-> op, id |-> id, arg |-> arg, ret |-> ret]

\* an empty Registry, no call made
RegIdle ==
    /\ sessions = [id \in SessionIds |-> NoSession]
    /\ reg_call = RegCall("none", 0, "none", FALSE)
    /\ cancel_status = 0

\* the clock: ticks per second, so that int(total_seconds()) truncates
TicksPerSecond == 2
Seconds(n) == n * TicksPerSecond
Hours(n) == Seconds(n * 3600)
Day == Hours(24)

\* workers that may hold a record
Workers == {"worker", "worker-2"}

\* a datetime: aware tells whether it carries a tzinfo
DateTime(aware, t) == [set |-> TRUE, aware |-> aware, t |-> t]
NoDateTime == [set |-> FALSE, aware |-> FALSE, t |-> 0]

\* how a call ended: the class of the exception raised ("None": it returned),
\* and the value returned as a bool, a number of seconds (-1: None) or a
\* datetime
RlCall(op, w, cls, flag, seconds, reset_time) ==
    [op |-> op, worker |-> w, raised |-> cls, flag |-> flag,
     seconds |-> seconds, reset_time |-> reset_time]
ReturnedBool(op, w, flag) == RlCall(op, w, "None", flag, -1, NoDateTime)
ReturnedSeconds(op, w, seconds) == RlCall(op, w, "None", FALSE, seconds, NoDateTime)
ReturnedTime(op, w, reset_time) == RlCall(op, w, "None", FALSE, -1, reset_time)
Raised(op, w, cls) == RlCall(op, w, cls, FALSE, -1, NoDateTime)

\* the tracker after construction, the clock at local midnight
RlIdle ==
    /\ now = 0
    /\ advances = 0
    /\ tracker_rate_limits = [w \in Workers |-> NoDateTime]
    /\ rl_call = ReturnedBool("none", "None", FALSE)

\* concurrent streaming requests
MaxRequests == 2
Requests == 1..MaxRequests

\* no streaming request yet
MonIdle ==
    /\ req_pc = [r \in Requests |-> "idle"]
    /\ mon_pc = [r \in Requests |-> "none"]
    /\ connected = [r \in Requests |-> TRUE]
    /\ streaming_started = [r \in Requests |-> FALSE]
    /\ cli_session_for_disconnect = [r \in Requests |-> 0]
    /\ invocations = [r \in Requests |-> NoSession]
    /\ created = <<>>

\* environment variables run_completion touches
EnvKeys == {"CLAUDE_CODE_USE_VERTEX", "CLAUDE_CODE_USE_BEDROCK", "AWS_REGION",
            "DISABLE_COACH_MCP"}

\* a dict over EnvKeys: "absent" marks a key that is not in the dict
EmptyDict == [k \in EnvKeys |-> "absent"]

\* os.environ when the process starts: "None" marks a variable that is not set
EnvAtStart ==
    [k \in EnvKeys |-> IF k = "AWS_REGION" THEN "eu-west-1" ELSE "None"]

\* no run_completion call yet
EnvIdle ==
    /\ environ = EnvAtStart
    /\ env_pc = [r \in Requests |-> "idle"]
    /\ original_env = [r \in Requests |-> EmptyDict]

\* one call on the health tracker
HealthCall(op, tier_id) == [op |-> op, tier_id |-> tier_id]

\* one entry of the dict get_all_provider_health returns; status "None"
\* stands for a tier without an entry
HealthEntry(st, consecutive_failures, last_error_msg) ==
    [status |-> st, consecutive_failures |-> consecutive_failures,
     last_error |-> last_error_msg]
NoHealthEntry == HealthEntry("None", 0, NoText)

\* no call on the health tracker yet, /health never asked
HealthIdle ==
    /\ health_call = HealthCall("None", "None")
    /\ health_report = [t \in Tiers |-> NoHealthEntry]

AuxIdle == RegIdle /\ RlIdle /\ MonIdle /\ EnvIdle /\ HealthIdle

Init == ExecIdle /\ HttpIdle /\ FbIdle /\ AuxIdle

\* ----------------------------------------------------- Invocation Registry
\* cli_session_manager.complete_session: idempotent terminal transition
complete_session_Overwrites(cur, new) == IF cur = "none" THEN cur ELSE new
complete_session(cur, new) == IF cur = "running" THEN new ELSE cur

\* cli_session_manager.cancel_session: sets the signal iff status is running
cancel_session ==
    /\ UNCHANGED <<httpVars, fbVars, auxVars>>
    /\ status = "running"
    /\ ~cancellation_token
    /\ cancellation_token' = TRUE
    /\ UNCHANGED <<pc, received, forwarded, cache_enabled, cache_size_bytes,
                   cache_exists, cache_lines, response_complete, status,
                   outcome, error, rate_limits, enable_file_discovery,
                   final_written, metadata_status>>

\* ------------------------------------------------------------- the executor
\* create_session and the setup up to the start of the query
Create(fd) ==
    /\ UNCHANGED <<httpVars, fbVars, auxVars>>
    /\ pc = "init"
    /\ pc' = "streaming"
    /\ status' = "running"
    /\ enable_file_discovery' = fd
    /\ metadata_status' = "running"
    /\ cache_enabled' = TRUE
    /\ cache_size_bytes' = 0
    /\ response_complete' = FALSE
    /\ UNCHANGED <<received, forwarded, cache_exists, cache_lines,
                   cancellation_token, outcome, error, rate_limits,
                   final_written>>

IsCompletionMarker_NoSuccess(message) ==
    /\ message.type = "result"
    /\ message.subtype \in {"complete", "error_max_turns"}

\* completion marker detection on one message
IsCompletionMarker(message) ==
    /\ message.type = "result"
    /\ message.subtype \in {"complete", "success", "error_max_turns"}

\* early rate-limit detection on one message
RateLimitDetected(message) ==
    /\ TypeName(message) = "AssistantMessage"
    /\ message.text # NoText
    /\ MatchesRateLimit(message.text)

\* the SystemMessage skip
IsSkipped(message) == TypeName(message) = "SystemMessage"

\* WorkerUnavailableError(f"Rate limit detected: {error_msg}")
RateLimitException(text) == <<"Rate", "limit", "detected">> \o text

\* RateLimitTracker.mark_rate_limited
mark_rate_limited(limits, w) == limits \cup {w}

\* RateLimitTracker.is_rate_limited
is_rate_limited(w) == w \in rate_limits

\* the cache file of an invocation:
\* sdk_response_{cli_session_id}_{os.getpid()}_{uuid.uuid4().hex[:8]}.txt
cache_file_name(cli_session_id, pid, suffix) ==
    <<"sdk_response", cli_session_id, pid, suffix>>

\* values of uuid.uuid4().hex[:8]
Suffixes == {"0a1b2c3d", "4e5f6a7b"}

CleanupCache_Kept(exists) == exists

\* the cache cleanup of the finally block: does the file exist afterwards
CleanupCache(exists) == FALSE

CacheWrite_PerChunkBudget(message, ioFails) ==
    LET chunk_size == ChunkSize(message) IN
    IF ~cache_enabled
    THEN <<cache_enabled, cache_size_bytes, cache_exists, cache_lines>>
    ELSE IF chunk_size > max_cache_bytes
    THEN <<FALSE, cache_size_bytes, cache_exists, cache_lines>>
    ELSE IF ioFails
    THEN <<FALSE, cache_size_bytes, cache_exists, cache_lines>>
    ELSE <<TRUE, cache_size_bytes + chunk_size, TRUE,
           Append(cache_lines, JsonRoundTrip(message))>>

\* the cache write of the streaming loop: <<enabled, size, exists, lines>> after it
CacheWrite(message, ioFails) ==
    LET chunk_size == ChunkSize(message) IN
    IF ~cache_enabled
    THEN <<cache_enabled, cache_size_bytes, cache_exists, cache_lines>>
    ELSE IF cache_size_bytes + chunk_size > max_cache_bytes
    THEN <<FALSE, cache_size_bytes, cache_exists, cache_lines>>
    ELSE IF ioFails
    THEN <<FALSE, cache_size_bytes, cache_exists, cache_lines>>
    ELSE <<TRUE, cache_size_bytes + chunk_size, TRUE,
           Append(cache_lines, JsonRoundTrip(message))>>

\* exception classes a failing final_file.write_text(json.dumps(...)) raises
FinalWriteErrors == {"OSError", "TypeError"}

\* exception classes a failing read, parse or write of metadata.json raises
MetadataErrors == {"OSError", "JSONDecodeError", "TypeError"}

FinalWriteCaught_OnlyOSError == {"OSError"}

\* except (OSError, TypeError) around the final write
FinalWriteCaught == {"OSError", "TypeError"}

\* except (OSError, json.JSONDecodeError, TypeError) around the metadata update
MetadataCaught == {"OSError", "JSONDecodeError", "TypeError"}

\* a failed write leaves the finally block as an exception
FinallyRaises(finalOk, metaOk) ==
    \/ ~finalOk /\ ~(FinalWriteErrors \subseteq FinalWriteCaught)
    \/ ~metaOk /\ ~(MetadataErrors \subseteq MetadataCaught)

\* str(e) of such an exception
WriteError == <<"write", "failed">>

\* the progress-tracking part of the finally block
FinallyDisk(finalOk, metaOk) ==
    /\ final_written' = (final_written \/ finalOk)
    /\ metadata_status' = IF metaOk THEN "completed" ELSE metadata_status

\* what the cache recovery of the exception handler yields
RecoveryChunks(e, exists, lines) ==
    IF exists /\ Len(lines) > 0
    THEN LET has_completion ==
                 \E i \in 1..Len(lines) :
                     /\ lines[i].type = "result"
                     /\ lines[i].subtype \in {"complete", "success"}
         IN  IF ~has_completion
             THEN lines \o <<IncompleteAfterCrashChunk(e)>>
             ELSE lines
    ELSE <<ErrorDuringExecutionChunk(e)>>

StatusWhileRecovering_Early(st) == complete_session(st, "failed")

\* the Registry status while the handler yields its recovery chunks:
\* complete_session("failed") comes after the last of them
StatusWhileRecovering(st) == st

\* An exception e other than timeout and cancellation leaves the streaming
\* block: the finally block runs, then the handler  except Exception.
\* exists/lines is the cache and st the Registry status at the raise.
ExceptionExitAfter(yielded, e, exists, lines, st) ==
    LET existsAfter == CleanupCache(exists)
        linesAfter == IF existsAfter THEN lines ELSE <<>>
    IN  /\ error' = e
        /\ cache_exists' = existsAfter
        /\ cache_lines' = linesAfter
        /\ IF is_worker_unavailable(e)
           THEN /\ status' = complete_session(st, "failed")
                /\ outcome' = "WorkerUnavailableError"
                /\ pc' = "done"
                /\ forwarded' = yielded
           ELSE /\ forwarded' = yielded \o RecoveryChunks(e, existsAfter, linesAfter)
                /\ status' = StatusWhileRecovering(st)
                /\ outcome' = outcome
                /\ pc' = "crash_yielded"

\* the same with nothing yielded since the last state
ExceptionExit(e, exists, lines, st) ==
    ExceptionExitAfter(forwarded, e, exists, lines, st)

CancellationObserved_Never(token) == FALSE

\* the cancellation check at the head of the chunk loop:
\* cli_session.cancellation_token and cli_session.cancellation_token.is_set()
CancellationObserved(token) == token

\* one iteration of  async for message in query(...)
Receive(raw, ioFails, finalOk, metaOk) ==
    /\ UNCHANGED <<httpVars, fbVars, auxVars>>
    /\ pc = "streaming"
    /\ Len(received) < MaxChunks
    /\ received' = Append(received, raw)
    /\ UNCHANGED <<cancellation_token, enable_file_discovery>>
    /\ IF CancellationObserved(cancellation_token)
       THEN \* raise asyncio.CancelledError("Session cancelled by user")
            /\ FinallyDisk(finalOk, metaOk)
            /\ cache_exists' = CleanupCache(cache_exists)
            /\ cache_lines' = IF cache_exists' THEN cache_lines ELSE <<>>
            /\ status' = complete_session(status, "cancelled")
            /\ outcome' = "CancelledError"
            /\ pc' = "done"
            /\ UNCHANGED <<forwarded, cache_enabled, cache_size_bytes,
                           response_complete, rate_limits, error>>
       ELSE LET message == ConvertMessage(raw, Len(received) + 1)
                cw == CacheWrite(message, ioFails)
            IN  /\ cache_enabled' = cw[1]
                /\ cache_size_bytes' = cw[2]
                /\ response_complete' =
                       (response_complete \/ IsCompletionMarker(message))
                /\ IF RateLimitDetected(message)
                   THEN /\ rate_limits' = mark_rate_limited(rate_limits, worker_id)
                        /\ FinallyDisk(finalOk, metaOk)
                        /\ ExceptionExit(RateLimitException(message.text),
                                         cw[3], cw[4],
                                         complete_session(status, "failed"))
                   ELSE /\ cache_exists' = cw[3]
                        /\ cache_lines' = cw[4]
                        /\ forwarded' = IF IsSkipped(message)
                                        THEN forwarded
                                        ELSE Append(forwarded, message)
                        /\ UNCHANGED <<pc, status, outcome, error, rate_limits,
                                       final_written, metadata_status>>

NeedsIncompleteMarker_OffByOne(complete, chunks_received) ==
    ~complete /\ chunks_received > 1

\* post-streaming validation: is a no_completion_marker chunk due
NeedsIncompleteMarker(complete, chunks_received) ==
    ~complete /\ chunks_received > 0

\* the backend stream ends: post-streaming validation, file discovery,
\* finally block, complete_session("completed")
StreamEnd(found, finalOk, metaOk) ==
    /\ UNCHANGED <<httpVars, fbVars, auxVars>>
    /\ pc = "streaming"
    /\ found => (enable_file_discovery /\ Len(received) > 0)
    /\ FinallyDisk(finalOk, metaOk)
    /\ LET diag == IF NeedsIncompleteMarker(response_complete, Len(received))
                   THEN <<NoCompletionMarkerChunk>> ELSE <<>>
           meta == IF enable_file_discovery
                   THEN IF found THEN <<MetadataChunk("success")>>
                                 ELSE <<MetadataChunk("no_files_found")>>
                   ELSE <<>>
       IN  IF FinallyRaises(finalOk, metaOk)
           THEN \* the exception reaches the handler  except Exception
                ExceptionExitAfter(forwarded \o diag \o meta, WriteError,
                                   cache_exists, cache_lines, status)
           ELSE /\ forwarded' = forwarded \o diag \o meta
                /\ cache_exists' = CleanupCache(cache_exists)
                /\ cache_lines' = IF cache_exists' THEN cache_lines ELSE <<>>
                /\ status' = complete_session(status, "completed")
                /\ outcome' = "return"
                /\ pc' = "done"
                /\ UNCHANGED error
    /\ UNCHANGED <<received, cache_enabled, cache_size_bytes,
                   response_complete, cancellation_token, rate_limits,
                   enable_file_discovery>>

Timeout_NoCleanup ==
    /\ UNCHANGED <<httpVars, fbVars, auxVars>>
    /\ pc = "streaming"
    /\ forwarded' = Append(forwarded, TimeoutChunk)
    /\ pc' = "timeout_yielded"
    /\ UNCHANGED <<received, cache_enabled, cache_size_bytes, cache_exists,
                   cache_lines, response_complete, status,
                   cancellation_token, outcome, error, rate_limits,
                   enable_file_discovery, final_written, metadata_status>>

\* asyncio.timeout fires: inner handler up to its yield
Timeout ==
    /\ UNCHANGED <<httpVars, fbVars, auxVars>>
    /\ pc = "streaming"
    /\ cache_exists' = FALSE
    /\ cache_lines' = <<>>
    /\ forwarded' = Append(forwarded, TimeoutChunk)
    /\ pc' = "timeout_yielded"
    /\ UNCHANGED <<received, cache_enabled, cache_size_bytes,
                   response_complete, status, cancellation_token, outcome,
                   error, rate_limits, enable_file_discovery, final_written,
                   metadata_status>>

\* the caller resumes the generator: raise, finally block, outer handler
TimeoutResume(finalOk, metaOk) ==
    /\ UNCHANGED <<httpVars, fbVars, auxVars>>
    /\ pc = "timeout_yielded"
    /\ FinallyDisk(finalOk, metaOk)
    /\ cache_exists' = CleanupCache(cache_exists)
    /\ cache_lines' = IF cache_exists' THEN cache_lines ELSE <<>>
    /\ status' = complete_session(status, "failed")
    /\ outcome' = "TimeoutError"
    /\ pc' = "done"
    /\ UNCHANGED <<received, forwarded, cache_enabled, cache_size_bytes,
                   response_complete, cancellation_token, rate_limits,
                   enable_file_discovery, error>>

\* the backend call raises e while the executor awaits the next message
Crash(e, finalOk, metaOk) ==
    /\ UNCHANGED <<httpVars, fbVars, auxVars>>
    /\ pc = "streaming"
    /\ FinallyDisk(finalOk, metaOk)
    /\ ExceptionExit(e, cache_exists, cache_lines, status)
    /\ UNCHANGED <<received, cache_enabled, cache_size_bytes,
                   response_complete, cancellation_token, rate_limits,
                   enable_file_discovery>>

\* the caller resumes the generator after the recovery chunks
CrashResume ==
    /\ UNCHANGED <<httpVars, fbVars, auxVars>>
    /\ pc = "crash_yielded"
    /\ status' = complete_session(status, "failed")
    /\ outcome' = "return"
    /\ pc' = "done"
    /\ UNCHANGED <<received, forwarded, cache_enabled, cache_size_bytes,
                   cache_exists, cache_lines, response_complete,
                   cancellation_token, error, rate_limits,
                   enable_file_discovery, final_written, metadata_status>>

\* str() of the UnboundLocalError for a local read before its assignment
UnboundLocalText(name) == <<"cannot", "access", "local", "variable", name>>

\* create_session succeeded and the setup raises RuntimeError before the
\* locals of the finally block and of the handler are assigned: the finally
\* block reads progress_tracking_enabled, its UnboundLocalError replaces the
\* RuntimeError and is caught by  except Exception, whose recovery branch
\* reads cache_file and raises again before complete_session is reached
SetupFailure ==
    /\ UNCHANGED <<httpVars, fbVars, auxVars>>
    /\ pc = "init"
    /\ LET e == UnboundLocalText("progress_tracking_enabled") IN
       /\ error' = e
       /\ IF is_worker_unavailable(e)
          THEN /\ status' = complete_session("running", "failed")
               /\ outcome' = "WorkerUnavailableError"
          ELSE /\ status' = "running"
               /\ outcome' = "UnboundLocalError"
    /\ pc' = "done"
    /\ UNCHANGED <<received, forwarded, cache_enabled, cache_size_bytes,
                   cache_exists, cache_lines, response_complete,
                   cancellation_token, rate_limits, enable_file_discovery,
                   final_written, metadata_status>>

\* the caller closes the generator while it is suspended at the yield of the
\* chunk loop: GeneratorExit is raised there, the finally block runs, and no
\* handler of the outer try matches (GeneratorExit is a BaseException)
aclose(finalOk, metaOk) ==
    /\ UNCHANGED <<httpVars, fbVars, auxVars>>
    /\ pc = "streaming"
    /\ Len(forwarded) > 0
    /\ FinallyDisk(finalOk, metaOk)
    /\ cache_exists' = CleanupCache(cache_exists)
    /\ cache_lines' = IF cache_exists' THEN cache_lines ELSE <<>>
    /\ outcome' = "GeneratorExit"
    /\ pc' = "done"
    /\ UNCHANGED <<received, forwarded, cache_enabled, cache_size_bytes,
                   response_complete, status, cancellation_token, error,
                   rate_limits, enable_file_discovery>>

Next ==
    \/ \E fd \in BOOLEAN : Create(fd)
    \/ SetupFailure
    \/ \E finalOk, metaOk \in BOOLEAN : aclose(finalOk, metaOk)
    \/ cancel_session
    \/ \E raw \in RawMessages, ioFails, finalOk, metaOk \in BOOLEAN :
           Receive(raw, ioFails, finalOk, metaOk)
    \/ \E found, finalOk, metaOk \in BOOLEAN : StreamEnd(found, finalOk, metaOk)
    \/ Timeout
    \/ \E finalOk, metaOk \in BOOLEAN : TimeoutResume(finalOk, metaOk)
    \/ \E e \in BackendErrors, finalOk, metaOk \in BOOLEAN : Crash(e, finalOk, metaOk)
    \/ CrashResume

Spec == Init /\ [][Next]_vars

\* ========================================================= HTTP boundary
MaxHttpChunks == 3      \* longest executor stream seen by one request

\* chunks of run_completion as the endpoint distinguishes them
ExecutorChunkKinds == {"assistant", "system", "x_claude_metadata"}

\* exceptions leaving run_completion
ExecutorExceptions == {"WorkerUnavailableError", "TimeoutError"}

\* headers of worker_unavailable_handler
WorkerUnavailableHeaders ==
    {<<"Retry-After", "0">>, <<"X-Worker-Failover", "true">>}

\* the response of a registered exception handler replaces the response only
\* while the response start has not been sent
HandlerResponse(code, headers, body) ==
    IF response_started
    THEN /\ UNCHANGED <<http_status, http_headers, http_body, response_started>>
    ELSE /\ http_status' = code
         /\ http_headers' = headers
         /\ http_body' = body
         /\ response_started' = TRUE

\* @app.exception_handler(WorkerUnavailableError)
worker_unavailable_handler ==
    HandlerResponse(503, WorkerUnavailableHeaders,
                    Body("service_unavailable", TRUE))

\* @app.exception_handler(HTTPException)
http_exception_handler(code) ==
    HandlerResponse(code, {}, Body("api_error", FALSE))

\* POST /v1/chat/completions up to the call of the executor; a streaming
\* request returns StreamingResponse, whose start (200 and its headers) is
\* sent before the body generator is first advanced
chat_completions(s) ==
    /\ UNCHANGED <<execVars, fbVars, auxVars>>
    /\ http_pc = "idle"
    /\ stream' = s
    /\ IF s
       THEN /\ http_pc' = "streaming"
            /\ response_started' = TRUE
            /\ http_status' = 200
            /\ http_headers' = {<<"Cache-Control", "no-cache">>,
                                 <<"Connection", "keep-alive">>}
       ELSE /\ http_pc' = "collecting"
            /\ UNCHANGED <<response_started, http_status, http_headers>>
    /\ UNCHANGED <<http_body, sse, chunks, metadata_chunk, executor_raised>>

role_sent == \E k \in 1..Len(sse) : sse[k] = "role"
content_sent == \E k \in 1..Len(sse) : sse[k] = "content"

\* one iteration of  async for chunk in claude_cli.run_completion(...)
ExecutorYields(kind) ==
    /\ UNCHANGED <<execVars, fbVars, auxVars>>
    /\ http_pc \in {"streaming", "collecting"}
    /\ IF kind = "x_claude_metadata"
       THEN /\ ~metadata_chunk
            /\ metadata_chunk' = TRUE
            /\ UNCHANGED <<chunks, sse>>
       ELSE /\ Len(chunks) < MaxHttpChunks
            /\ chunks' = Append(chunks, kind)
            /\ sse' = IF stream /\ kind = "assistant"
                       THEN sse \o (IF role_sent THEN <<>> ELSE <<"role">>)
                                \o <<"content">>
                       ELSE sse
            /\ UNCHANGED metadata_chunk
    /\ UNCHANGED <<http_pc, stream, response_started, http_status,
                   http_headers, http_body, executor_raised>>

\* run_completion is exhausted
ExecutorReturns ==
    /\ UNCHANGED <<execVars, fbVars, auxVars>>
    /\ http_pc \in {"streaming", "collecting"}
    /\ http_pc' = "done"
    /\ IF stream
       THEN /\ sse' = sse \o (IF role_sent THEN <<>> ELSE <<"role">>)
                          \o (IF content_sent THEN <<>> ELSE <<"content">>)
                          \o <<"finish">>
                          \o (IF metadata_chunk THEN <<"x_claude_metadata">>
                                                ELSE <<>>)
                          \o <<"[DONE]">>
            /\ UNCHANGED <<http_status, http_headers, http_body,
                           response_started>>
       ELSE /\ IF \E k \in 1..Len(chunks) : chunks[k] = "assistant"
               THEN /\ http_status' = 200
                    /\ http_headers' = {}
                    /\ http_body' = Body("chat.completion", FALSE)
                    /\ response_started' = TRUE
               ELSE http_exception_handler(500)
            /\ UNCHANGED sse
    /\ UNCHANGED <<stream, chunks, metadata_chunk, executor_raised>>

\* run_completion raises exc into the endpoint
ExecutorRaises(exc) ==
    /\ UNCHANGED <<execVars, fbVars, auxVars>>
    /\ http_pc \in {"streaming", "collecting"}
    /\ http_pc' = "done"
    /\ executor_raised' = exc
    /\ IF exc = "WorkerUnavailableError"
       THEN \* except WorkerUnavailableError: raise
            /\ worker_unavailable_handler
            /\ UNCHANGED sse
       ELSE IF stream
       THEN \* except Exception: one streaming_error event
            /\ sse' = Append(sse, "streaming_error")
            /\ UNCHANGED <<http_status, http_headers, http_body,
                           response_started>>
       ELSE \* except Exception: raise HTTPException(500)
            /\ http_exception_handler(500)
            /\ UNCHANGED sse
    /\ UNCHANGED <<stream, chunks, metadata_chunk>>

HttpInit == ExecIdle /\ HttpIdle /\ FbIdle /\ AuxIdle

HttpNext ==
    \/ \E s \in BOOLEAN : chat_completions(s)
    \/ \E kind \in ExecutorChunkKinds : ExecutorYields(kind)
    \/ ExecutorReturns
    \/ \E exc \in ExecutorExceptions : ExecutorRaises(exc)

HttpSpec == HttpInit /\ [][HttpNext]_vars

\* ================================================= Fallback Orchestrator
MaxFailures == 3        \* largest consecutive_failures explored

FALLBACK_CHAINS_Shared(tier_id) ==
    IF tier_id \in {"claude-premium", "claude-dsgvo"}
    THEN <<"openrouter-claude">> ELSE <<>>

\* FALLBACK_CHAINS.get(primary_tier, [])
FALLBACK_CHAINS(tier_id) ==
    IF tier_id = "claude-premium" THEN <<"openrouter-claude">> ELSE <<>>

get_fallback_tiers_FallbacksFirst(tier_id) ==
    FALLBACK_CHAINS(tier_id) \o <<tier_id>>

\* [primary, fallback1, fallback2, ...]
get_fallback_tiers(tier_id) == <<tier_id>> \o FALLBACK_CHAINS(tier_id)

RETRYABLE_STATUS_CODES == {429, 500, 502, 503, 504}

\* the classes an exception class is an instance of
Bases(cls) ==
    CASE cls = "ProviderError" -> {"ProviderError", "RuntimeError", "Exception"}
      [] cls = "RuntimeError" -> {"RuntimeError", "Exception"}
      [] cls = "ConnectTimeout" -> {"ConnectTimeout", "Exception"}
      [] cls = "ConnectError" -> {"ConnectError", "Exception"}
      [] cls = "ReadTimeout" -> {"ReadTimeout", "Exception"}
      [] cls = "NotImplementedError" ->
             {"NotImplementedError", "RuntimeError", "Exception"}
      [] cls = "ValueError" -> {"ValueError", "Exception"}
      [] cls = "WorkerUnavailableError" -> {"WorkerUnavailableError", "Exception"}
      [] cls = "CancelledError" -> {"CancelledError", "BaseException"}
      [] OTHER -> {cls}

\* isinstance(error, classes)
IsInstance(e, classes) == Bases(e.cls) \cap classes # {}

\* ProviderError(status_code, message)
ProviderError(status_code, message) ==
    Exc("ProviderError", status_code,
        <<"Provider", "returned", ToString(status_code)>> \o message)

\* what execute_fn can raise
ExecuteErrors ==
    { ProviderError(503, <<"Service", "Unavailable">>),
      ProviderError(400, <<"upstream", "timeout">>),
      Exc("ConnectTimeout", 0, <<"timed", "out">>),
      Exc("RuntimeError", 0, <<"Bedrock", "Timeout">>),
      Exc("WorkerUnavailableError", 0, RateLimitException(LimitText)) }

\* what resolve_config_fn can raise
\* what resolve_config_fn can raise: "... not configured: " followed by the
\* error texts of the credential check
ResolveErrors ==
    { Exc("RuntimeError", 0,
          <<"Bedrock", "backend", "requested", "but", "not", "configured">>),
      Exc("RuntimeError", 0,
          <<"Bedrock", "backend", "requested", "but", "not", "configured",
            "credential", "check", "Timeout">>) }

\* asyncio.CancelledError reaching the orchestrator out of execute_fn
CancelledError == Exc("CancelledError", 0, <<"Session", "cancelled", "by", "user">>)

\* errors beside those of ExecuteErrors and ResolveErrors that the
\* classification is asked about
OtherErrors ==
    { ProviderError(429, <<"Too", "Many", "Requests">>),
      ProviderError(404, <<"model", "502", "not", "found">>),
      Exc("ConnectError", 0, <<"Connection", "refused">>),
      Exc("ReadTimeout", 0, NoText),
      Exc("RuntimeError", 0, <<"HTTP", "502">>),
      Exc("RuntimeError", 0, <<"Unauthorized">>),
      Exc("NotImplementedError", 0, <<"Timeout">>),
      Exc("ValueError", 0, <<"HTTP", "503", "Timeout">>) }

is_retryable_error_MessageFirst(e) ==
    IF IsInstance(e, {"RuntimeError"})
    THEN \E code \in {"429", "500", "502", "503", "504", "timeout"} :
             Contains(LowerText(e.msg), <<code>>)
    ELSE IF IsInstance(e, {"ProviderError"})
    THEN e.status_code \in RETRYABLE_STATUS_CODES
    ELSE IsInstance(e, {"ConnectError", "ConnectTimeout", "ReadTimeout"})

is_retryable_error(e) ==
    IF IsInstance(e, {"ProviderError"})
    THEN e.status_code \in RETRYABLE_STATUS_CODES
    ELSE IF IsInstance(e, {"ConnectError", "ConnectTimeout", "ReadTimeout"})
    THEN TRUE
    ELSE IF IsInstance(e, {"RuntimeError"})
    THEN \E code \in {"429", "500", "502", "503", "504", "timeout"} :
             Contains(LowerText(e.msg), <<code>>)
    ELSE FALSE

ProviderStatus_DownAtTwo(health) ==
    IF health.consecutive_failures = 0 THEN "up"
    ELSE IF health.consecutive_failures < 2 THEN "degraded"
    ELSE "down"

\* ProviderHealth.status
ProviderStatus(health) ==
    IF health.consecutive_failures = 0 THEN "up"
    ELSE IF health.consecutive_failures < 3 THEN "degraded"
    ELSE "down"

\* the dict built from the tracked providers
get_all_provider_health(health) ==
    [t \in Tiers |->
        IF health[t].tracked
        THEN HealthEntry(ProviderStatus(health[t]),
                         health[t].consecutive_failures,
                         health[t].last_error_msg)
        ELSE NoHealthEntry]

record_success_KeepsCount(health, tier_id) ==
    [health EXCEPT ![tier_id] =
        ProviderHealth(TRUE, @.consecutive_failures, @.last_error_msg)]

record_success(health, tier_id) ==
    [health EXCEPT ![tier_id] = ProviderHealth(TRUE, 0, @.last_error_msg)]

record_failure(health, tier_id, error_msg) ==
    [health EXCEPT ![tier_id] =
        ProviderHealth(TRUE, @.consecutive_failures + 1, error_msg)]

\* one call of resolve_config_fn / execute_fn and what it raised
Attempt(tier_id, stage, e) == [tier_id |-> tier_id, stage |-> stage, error |-> e]

\* entry: tiers = get_fallback_tiers(primary_tier), last_error = None
execute_with_fallback(tier_id) ==
    /\ UNCHANGED <<execVars, httpVars, auxVars>>
    /\ fb_pc \in {"idle", "returned", "raised"}
    /\ \A t \in Tiers : provider_health[t].consecutive_failures < MaxFailures
    /\ primary_tier' = tier_id
    /\ tiers' = get_fallback_tiers(tier_id)
    /\ tier_i' = 1
    /\ last_error' = NoExc
    /\ attempts' = <<>>
    /\ response' = NoResponse
    /\ raised' = NoExc
    /\ fb_pc' = "loop"
    /\ UNCHANGED provider_health

\* resolve_config_fn and execute_fn succeed for tiers[i]
ExecuteReturns ==
    /\ UNCHANGED <<execVars, httpVars, auxVars>>
    /\ fb_pc = "loop"
    /\ LET tier_id == tiers[tier_i] IN
       /\ attempts' = Append(attempts, Attempt(tier_id, "execute", NoExc))
       /\ provider_health' = record_success(provider_health, tier_id)
       /\ response' = Response(tier_id)
    /\ fb_pc' = "returned"
    /\ UNCHANGED <<primary_tier, tiers, tier_i, last_error, raised>>

NextLastError_First(cur, e) == IF cur = NoExc THEN e ELSE cur

\* last_error = e
NextLastError(cur, e) == e

AfterFailure_AlwaysFallsBack(e, remaining) ==
    IF remaining # <<>> THEN "sleep" ELSE "raised"

\* where the handler goes: raise at once, back off, or leave the loop and
\* raise last_error
AfterFailure(e, remaining) ==
    IF ~is_retryable_error(e) THEN "raised"
    ELSE IF remaining # <<>> THEN "sleep"
    ELSE "raised"

\* the handler  except Exception as e  for tiers[i]
Failure(e) ==
    LET tier_id == tiers[tier_i]
        remaining == SubSeq(tiers, tier_i + 1, Len(tiers))
    IN  /\ last_error' = NextLastError(last_error, e)
        /\ provider_health' = record_failure(provider_health, tier_id, e.msg)
        /\ fb_pc' = AfterFailure(e, remaining)
        /\ raised' = IF fb_pc' = "raised"
                      THEN IF ~is_retryable_error(e) THEN e ELSE last_error'
                      ELSE raised
        /\ UNCHANGED <<primary_tier, tiers, tier_i, response>>

\* resolve_config_fn raises e for tiers[i]
ResolveRaises(e) ==
    /\ UNCHANGED <<execVars, httpVars, auxVars>>
    /\ fb_pc = "loop"
    /\ attempts' = Append(attempts, Attempt(tiers[tier_i], "resolve", e))
    /\ Failure(e)

\* execute_fn raises e for tiers[i]
ExecuteRaises(e) ==
    /\ UNCHANGED <<execVars, httpVars, auxVars>>
    /\ fb_pc = "loop"
    /\ attempts' = Append(attempts, Attempt(tiers[tier_i], "execute", e))
    /\ Failure(e)

Caught_BareExcept(e) == TRUE

\* does  except Exception as e  catch e
Caught(e) == IsInstance(e, {"Exception"})

\* the caller's cancellation arrives while execute_fn runs for tiers[i]
ExecuteCancelled ==
    /\ UNCHANGED <<execVars, httpVars, auxVars>>
    /\ fb_pc = "loop"
    /\ attempts' = Append(attempts,
                          Attempt(tiers[tier_i], "execute", CancelledError))
    /\ IF Caught(CancelledError)
       THEN Failure(CancelledError)
       ELSE /\ raised' = CancelledError
            /\ fb_pc' = "raised"
            /\ UNCHANGED <<primary_tier, tiers, tier_i, last_error,
                           provider_health, response>>

\* asyncio.sleep(FALLBACK_DELAY_SECONDS) is over: next iteration
Backoff ==
    /\ UNCHANGED <<execVars, httpVars, auxVars>>
    /\ fb_pc = "sleep"
    /\ tier_i' = tier_i + 1
    /\ fb_pc' = "loop"
    /\ UNCHANGED <<primary_tier, tiers, last_error, provider_health, attempts,
                   response, raised>>

FallbackInit == ExecIdle /\ HttpIdle /\ FbIdle /\ AuxIdle

FallbackNext ==
    \/ \E tier_id \in Tiers : execute_with_fallback(tier_id)
    \/ ExecuteReturns
    \/ \E e \in ResolveErrors : ResolveRaises(e)
    \/ \E e \in ExecuteErrors : ExecuteRaises(e)
    \/ ExecuteCancelled
    \/ Backoff

FallbackSpec == FallbackInit /\ [][FallbackNext]_vars

\* ------------------------------------------- the Registry and its endpoints
\* every action of the Registry leaves the other components alone
RegFrame == UNCHANGED <<coreVars, rlVars, monVars, envVars, healthVars>>

\* cli_session_manager.create_session: a new running Invocation
create_session(id) ==
    /\ RegFrame
    /\ sessions[id] = NoSession
    /\ sessions' = [sessions EXCEPT ![id] = Session("running", FALSE)]
    /\ reg_call' = RegCall("create", id, "none", TRUE)
    /\ UNCHANGED cancel_status

\* cli_session_manager.complete_session(id, status) on the map
CompleteSession(id, st) ==
    /\ RegFrame
    /\ sessions' = [sessions EXCEPT
                       ![id].status = complete_session(sessions[id].status, st)]
    /\ reg_call' = RegCall("complete", id, st, sessions[id].status = "running")
    /\ UNCHANGED cancel_status

\* the value cancel_session(id) returns
cancel_returns(session) == session.status = "running"

\* the Invocation after cancel_session(id)
Cancelled(session) ==
    IF cancel_returns(session)
    THEN [session EXCEPT !.cancellation_token = TRUE]
    ELSE session

\* POST /v1/cli-sessions/{id}/cancel: 200, or 404 / 400 when cancel_session
\* returned False
CancelStatus_AlwaysOk(cancelled, session) == 200
CancelStatus(cancelled, session) ==
    IF cancelled THEN 200
    ELSE IF session = NoSession THEN 404
    ELSE 400

cancel_cli_session(id) ==
    /\ RegFrame
    /\ sessions' = [sessions EXCEPT ![id] = Cancelled(sessions[id])]
    /\ reg_call' = RegCall("cancel", id, "none", cancel_returns(sessions[id]))
    /\ cancel_status' = CancelStatus(cancel_returns(sessions[id]), sessions'[id])

\* cli_session_manager.cleanup_old_sessions: terminal Invocations past the
\* retention window leave the map
cleanup_old_sessions(ids) ==
    /\ RegFrame
    /\ ids # {}
    /\ \A id \in ids : sessions[id].status \in {"completed", "cancelled", "failed"}
    /\ sessions' = [id \in SessionIds |->
                       IF id \in ids THEN NoSession ELSE sessions[id]]
    /\ reg_call' = RegCall("cleanup", 0, "none", TRUE)
    /\ UNCHANGED cancel_status

RegistryInit == Init

RegistryNext ==
    \/ \E id \in SessionIds : create_session(id)
    \/ \E id \in SessionIds, st \in {"completed", "cancelled", "failed"} :
           CompleteSession(id, st)
    \/ \E id \in SessionIds : cancel_cli_session(id)
    \/ \E ids \in SUBSET SessionIds : cleanup_old_sessions(ids)

RegistrySpec == RegistryInit /\ [][RegistryNext]_vars

\* --------------------------------------------------- the Rate-Limit Tracker
MaxAdvances == 3        \* how often the clock is advanced

\* the amounts by which the clock is advanced
AdvanceSteps == {1, Seconds(59), Seconds(3540), Hours(1)}

\* messages passed to mark_rate_limited
ResetMessages ==
    { <<"You've", "hit", "your", "limit", "resets", "1pm", "(Europe/Vienna)">>,
      <<"resets", "12am", "(Europe/Vienna)">>,
      <<"resets", "13pm", "(Europe/Vienna)">>,
      <<"resets", "1pm", "(Mars/Olympus)">>,
      <<"Rate", "limit", "reached">>,
      LimitText }

\* (\d{1,2})(am|pm) on one token: the hour and the am/pm mark
HourToken(tok) ==
    CASE tok = "1pm" -> [ok |-> TRUE, hour |-> 1, am_pm |-> "pm"]
      [] tok = "12am" -> [ok |-> TRUE, hour |-> 12, am_pm |-> "am"]
      [] tok = "13pm" -> [ok |-> TRUE, hour |-> 13, am_pm |-> "pm"]
      [] OTHER -> [ok |-> FALSE, hour |-> 0, am_pm |-> "none"]

\* \(([^)]+)\) on one token of the lower-cased message: the timezone name
ZoneToken(tok) ==
    CASE tok = "(europe/vienna)" -> "europe/vienna"
      [] tok = "(mars/olympus)" -> "mars/olympus"
      [] OTHER -> "none"

\* pytz.timezone(name) finds the zone; for a real zone written in lower case
\* that depends on the pytz release (case-insensitive lookup or not)
ZoneKnown(name, case_insensitive) == name = "europe/vienna" /\ case_insensitive

\* re.search(pattern, message.lower()): the positions where the pattern matches
ResetMatches(message) ==
    { k \in 1..(Len(message) - 2) :
        /\ Lower(message[k]) = "resets"
        /\ HourToken(Lower(message[k + 1])).ok
        /\ ZoneToken(Lower(message[k + 2])) # "none" }

\* conversion to the 24-hour clock
Hour24(hour, am_pm) ==
    IF am_pm = "pm" /\ hour # 12 THEN hour + 12
    ELSE IF am_pm = "am" /\ hour = 12 THEN 0
    ELSE hour

\* now.replace(hour=h, minute=0, second=0), moved to tomorrow if not after now
NextHour(t, h) ==
    LET reset_time == (t \div Day) * Day + Hours(h)
    IN  IF reset_time <= t THEN reset_time + Day ELSE reset_time

\* RateLimitTracker.parse_reset_time at time t
parse_reset_time(message, t, case_insensitive) ==
    LET matches == ResetMatches(message)
        k == CHOOSE m \in matches : \A o \in matches : m <= o
        tok == HourToken(Lower(message[k + 1]))
        hour == Hour24(tok.hour, tok.am_pm)
    IN  IF /\ matches # {}
           /\ ZoneKnown(ZoneToken(Lower(message[k + 2])), case_insensitive)
           /\ hour <= 23
        THEN DateTime(TRUE, NextHour(t, hour))
        ELSE DateTime(FALSE, t + Hours(1))

\* an operation on two datetimes raises TypeError when exactly one is aware;
\* datetime.now() is naive
Mixed(reset_time) == reset_time.aware

\* int(delta.total_seconds()): truncation toward zero
total_seconds(delta) ==
    IF delta >= 0 THEN delta \div TicksPerSecond
    ELSE 0 - ((0 - delta) \div TicksPerSecond)

Max(a, b) == IF a >= b THEN a ELSE b

\* max(60, int(delta.total_seconds()))
retry_after_NoFloor(delta) == total_seconds(delta)
retry_after(delta) == Max(60, total_seconds(delta))

RlFrame == UNCHANGED <<coreVars, regVars, monVars, envVars, healthVars>>

\* time passes
Advance(d) ==
    /\ RlFrame
    /\ advances < MaxAdvances
    /\ advances' = advances + 1
    /\ now' = now + d
    /\ UNCHANGED <<tracker_rate_limits, rl_call>>

\* RateLimitTracker.mark_rate_limited
MarkRateLimited(w, message, case_insensitive) ==
    /\ RlFrame
    /\ LET reset_time == parse_reset_time(message, now, case_insensitive)
       IN  /\ tracker_rate_limits' = [tracker_rate_limits EXCEPT ![w] = reset_time]
           /\ rl_call' = ReturnedTime("mark_rate_limited", w, reset_time)
    /\ UNCHANGED <<now, advances>>

\* RateLimitTracker.is_rate_limited
IsRateLimited(w) ==
    /\ RlFrame
    /\ LET reset_time == tracker_rate_limits[w]
       IN  IF ~reset_time.set
           THEN /\ rl_call' = ReturnedBool("is_rate_limited", w, FALSE)
                /\ UNCHANGED tracker_rate_limits
           ELSE IF Mixed(reset_time)
           THEN /\ rl_call' = Raised("is_rate_limited", w, "TypeError")
                /\ UNCHANGED tracker_rate_limits
           ELSE IF now >= reset_time.t
           THEN /\ tracker_rate_limits' =
                       [tracker_rate_limits EXCEPT ![w] = NoDateTime]
                /\ rl_call' = ReturnedBool("is_rate_limited", w, FALSE)
           ELSE /\ rl_call' = ReturnedBool("is_rate_limited", w, TRUE)
                /\ UNCHANGED tracker_rate_limits
    /\ UNCHANGED <<now, advances>>

\* RateLimitTracker.get_retry_after
get_retry_after(w) ==
    /\ RlFrame
    /\ LET reset_time == tracker_rate_limits[w]
       IN  rl_call' =
               IF ~reset_time.set THEN ReturnedSeconds("get_retry_after", w, -1)
               ELSE IF Mixed(reset_time)
               THEN Raised("get_retry_after", w, "TypeError")
               ELSE ReturnedSeconds("get_retry_after", w,
                                    retry_after(reset_time.t - now))
    /\ UNCHANGED <<now, advances, tracker_rate_limits>>

\* RateLimitError(message, reset_time): retry_after_seconds as computed by
\* _calculate_retry_after
RateLimitError(reset_time) ==
    /\ RlFrame
    /\ rl_call' =
           IF ~reset_time.set THEN ReturnedSeconds("RateLimitError", "None", 3600)
           ELSE IF Mixed(reset_time)
           THEN Raised("RateLimitError", "None", "TypeError")
           ELSE ReturnedSeconds("RateLimitError", "None",
                                retry_after(reset_time.t - now))
    /\ UNCHANGED <<now, advances, tracker_rate_limits>>

TrackerInit == Init

TrackerNext ==
    \/ \E d \in AdvanceSteps : Advance(d)
    \/ \E w \in Workers, message \in ResetMessages, ci \in BOOLEAN :
           MarkRateLimited(w, message, ci)
    \/ \E w \in Workers : IsRateLimited(w)
    \/ \E w \in Workers : get_retry_after(w)
    \/ \E w \in Workers : RateLimitError(tracker_rate_limits[w])

TrackerSpec == TrackerInit /\ [][TrackerNext]_vars

\* ---------------------------------------------------- the Disconnect Monitor
MonFrame == UNCHANGED <<coreVars, regVars, rlVars, envVars, healthVars>>

\* list_sessions(status_filter="running"): the requests whose Invocation is
\* running, in creation order
RECURSIVE list_running(_, _)
list_running(order, invs) ==
    IF order = <<>> THEN <<>>
    ELSE IF invs[Head(order)].status = "running"
         THEN <<Head(order)>> \o list_running(Tail(order), invs)
         ELSE list_running(Tail(order), invs)

\* cli_sessions[-1]
MostRecent(cli_sessions, r) == cli_sessions[Len(cli_sessions)]

\* asyncio.wait_for(streaming_started.wait(), timeout=5.0) can time out
WaitTimesOut(started) == ~started

WaitReturns_Always(started) == TRUE

\* asyncio.wait_for(streaming_started.wait(), timeout=5.0) returns normally
WaitReturns(started) == started

\* generate_streaming_response starts: the monitor task is created
StartStreaming(r) ==
    /\ MonFrame
    /\ req_pc[r] = "idle"
    /\ req_pc' = [req_pc EXCEPT ![r] = "started"]
    /\ mon_pc' = [mon_pc EXCEPT ![r] = "waiting"]
    /\ UNCHANGED <<connected, streaming_started, cli_session_for_disconnect,
                   invocations, created>>

\* run_completion creates its Invocation
ExecutorCreates(r) ==
    /\ MonFrame
    /\ req_pc[r] = "started"
    /\ req_pc' = [req_pc EXCEPT ![r] = "running"]
    /\ invocations' = [invocations EXCEPT ![r] = Session("running", FALSE)]
    /\ created' = Append(created, r)
    /\ UNCHANGED <<mon_pc, connected, streaming_started,
                   cli_session_for_disconnect>>

\* the first chunk arrives: the most recent running Invocation is taken as
\* the one to cancel and streaming_started is set
FirstChunk(r) ==
    /\ MonFrame
    /\ req_pc[r] = "running"
    /\ cli_session_for_disconnect[r] = 0
    /\ LET cli_sessions == list_running(created, invocations)
       IN  /\ cli_sessions # <<>>
           /\ cli_session_for_disconnect' =
                  [cli_session_for_disconnect EXCEPT
                       ![r] = MostRecent(cli_sessions, r)]
    /\ streaming_started' = [streaming_started EXCEPT ![r] = TRUE]
    /\ UNCHANGED <<req_pc, mon_pc, connected, invocations, created>>

\* run_completion ends with a terminal status; the generator's finally
\* cancels the monitor task if it is not done
ExecutorEnds(r, st) ==
    /\ MonFrame
    /\ req_pc[r] = "running"
    /\ st = "cancelled" => invocations[r].cancellation_token
    /\ req_pc' = [req_pc EXCEPT ![r] = "done"]
    /\ invocations' = [invocations EXCEPT
                          ![r].status = complete_session(invocations[r].status, st)]
    /\ mon_pc' = [mon_pc EXCEPT
                     ![r] = IF mon_pc[r] \in {"waiting", "polling"}
                            THEN "cancelled" ELSE mon_pc[r]]
    /\ UNCHANGED <<connected, streaming_started, cli_session_for_disconnect,
                   created>>

\* the caller goes away
Disconnect(r) ==
    /\ MonFrame
    /\ req_pc[r] \in {"started", "running"}
    /\ connected[r]
    /\ connected' = [connected EXCEPT ![r] = FALSE]
    /\ UNCHANGED <<req_pc, mon_pc, streaming_started,
                   cli_session_for_disconnect, invocations, created>>

\* wait_for times out after 5 s without a first chunk: the monitor returns
MonitorTimeout(r) ==
    /\ MonFrame
    /\ mon_pc[r] = "waiting"
    /\ WaitTimesOut(streaming_started[r])
    /\ mon_pc' = [mon_pc EXCEPT ![r] = "timed_out"]
    /\ UNCHANGED <<req_pc, connected, streaming_started,
                   cli_session_for_disconnect, invocations, created>>

\* streaming_started is set: the monitor goes on to poll
MonitorProceeds(r) ==
    /\ MonFrame
    /\ mon_pc[r] = "waiting"
    /\ WaitReturns(streaming_started[r])
    /\ mon_pc' = [mon_pc EXCEPT
                     ![r] = IF cli_session_for_disconnect[r] = 0
                            THEN "no_session" ELSE "polling"]
    /\ UNCHANGED <<req_pc, connected, streaming_started,
                   cli_session_for_disconnect, invocations, created>>

\* a poll that finds the caller gone: cancel_session and leave the loop
\* (a poll that finds the caller connected sleeps 0.5 s and changes nothing)
Poll(r) ==
    /\ MonFrame
    /\ mon_pc[r] = "polling"
    /\ ~connected[r]
    /\ invocations' =
           [invocations EXCEPT ![cli_session_for_disconnect[r]] =
                Cancelled(invocations[cli_session_for_disconnect[r]])]
    /\ mon_pc' = [mon_pc EXCEPT ![r] = "done"]
    /\ UNCHANGED <<req_pc, connected, streaming_started,
                   cli_session_for_disconnect, created>>

MonitorInit == Init

MonitorNext ==
    \/ \E r \in Requests : StartStreaming(r)
    \/ \E r \in Requests : ExecutorCreates(r)
    \/ \E r \in Requests : FirstChunk(r)
    \/ \E r \in Requests, st \in {"completed", "cancelled", "failed"} :
           ExecutorEnds(r, st)
    \/ \E r \in Requests : Disconnect(r)
    \/ \E r \in Requests : MonitorTimeout(r)
    \/ \E r \in Requests : MonitorProceeds(r)
    \/ \E r \in Requests : Poll(r)

MonitorSpec == MonitorInit /\ [][MonitorNext]_vars

\* ------------------------------------------------ the process environment
EnvFrame == UNCHANGED <<coreVars, regVars, rlVars, monVars, healthVars>>

\* self.claude_env_vars of the process (vertex authentication)
claude_env_vars == [EmptyDict EXCEPT !["CLAUDE_CODE_USE_VERTEX"] = "1"]

\* backend_env_vars a request may pass
BackendEnvVars ==
    { EmptyDict,
      [EmptyDict EXCEPT !["CLAUDE_CODE_USE_BEDROCK"] = "1",
                        !["AWS_REGION"] = "eu-central-1"],
      [EmptyDict EXCEPT !["AWS_REGION"] = "us-east-1"] }

\* os.environ after  for key, value in env_vars.items(): os.environ[key] = value
SetAll(env, env_vars) ==
    [k \in EnvKeys |-> IF env_vars[k] # "absent" THEN env_vars[k] ELSE env[k]]

\* original_env after the loop saved os.environ.get(key) for the keys of
\* env_vars; keep_saved: keys already saved are not saved again
SaveAll(orig, env, env_vars, keep_saved) ==
    [k \in EnvKeys |->
        IF env_vars[k] # "absent" /\ (orig[k] = "absent" \/ ~keep_saved)
        THEN env[k] ELSE orig[k]]

\* DISABLE_COACH_MCP = 'true'
CoachOff == [EmptyDict EXCEPT !["DISABLE_COACH_MCP"] = "true"]

\* os.environ after the finally restored original_env
Restore(env, orig) ==
    [k \in EnvKeys |-> IF orig[k] = "absent" THEN env[k] ELSE orig[k]]

\* lines 555-579: save and set, without a suspension point
SetEnv(r, backend_env_vars) ==
    /\ EnvFrame
    /\ env_pc[r] = "idle"
    /\ LET orig1 == SaveAll(EmptyDict, environ, claude_env_vars, FALSE)
           env1 == SetAll(environ, claude_env_vars)
           orig2 == SaveAll(orig1, env1, backend_env_vars, TRUE)
           env2 == SetAll(env1, backend_env_vars)
           orig3 == SaveAll(orig2, env2, CoachOff, FALSE)
           env3 == SetAll(env2, CoachOff)
       IN  /\ environ' = env3
           /\ original_env' = [original_env EXCEPT ![r] = orig3]
    /\ env_pc' = [env_pc EXCEPT ![r] = "running"]

\* the finally of a run that got past the setup: success, error, timeout,
\* cancellation or a closed generator
ExitPaths == {"completed", "failed", "cancelled", "closed"}

RestoreEnv(r, path) ==
    /\ EnvFrame
    /\ env_pc[r] = "running"
    /\ environ' = Restore(environ, original_env[r])
    /\ env_pc' = [env_pc EXCEPT ![r] = path]
    /\ UNCHANGED original_env

\* a RuntimeError of the setup (598, 619, 627, 644): the finally raises
\* UnboundLocalError at its first statement and never reaches the restore
SetupFailureExit(r) ==
    /\ EnvFrame
    /\ env_pc[r] = "running"
    /\ env_pc' = [env_pc EXCEPT ![r] = "setup_failed"]
    /\ UNCHANGED <<environ, original_env>>

EnvInit == Init

EnvNext ==
    \/ \E r \in Requests, b \in BackendEnvVars : SetEnv(r, b)
    \/ \E r \in Requests, path \in ExitPaths : RestoreEnv(r, path)
    \/ \E r \in Requests : SetupFailureExit(r)

EnvSpec == EnvInit /\ [][EnvNext]_vars

\* ------------------------------------------------- the health tracker
\* record_success, record_failure and get_all_provider_health called in any
\* order on the module-level _provider_health
MaxHealthFailures == 4  \* largest consecutive_failures a provider reaches
HealthTiers == {"claude-premium", "openrouter-claude"}
HealthErrorMsg == <<"upstream", "timeout">>

HealthFrame ==
    UNCHANGED <<execVars, httpVars, regVars, rlVars, monVars, envVars,
                fb_pc, primary_tier, tiers, tier_i, last_error, attempts,
                response, raised>>

RecordSuccess(tier_id) ==
    /\ HealthFrame
    /\ provider_health' = record_success(provider_health, tier_id)
    /\ health_call' = HealthCall("record_success", tier_id)
    /\ UNCHANGED health_report

RecordFailure(tier_id, error_msg) ==
    /\ HealthFrame
    /\ provider_health[tier_id].consecutive_failures < MaxHealthFailures
    /\ provider_health' = record_failure(provider_health, tier_id, error_msg)
    /\ health_call' = HealthCall("record_failure", tier_id)
    /\ UNCHANGED health_report

GetAllProviderHealth ==
    /\ HealthFrame
    /\ health_report' = get_all_provider_health(provider_health)
    /\ health_call' = HealthCall("get_all_provider_health", "None")
    /\ UNCHANGED provider_health

HealthInit == Init

HealthNext ==
    \/ \E t \in HealthTiers : RecordSuccess(t)
    \/ \E t \in HealthTiers : RecordFailure(t, HealthErrorMsg)
    \/ GetAllProviderHealth

HealthSpec == HealthInit /\ [][HealthNext]_vars

\* ================================================================= claims
\* steps of the executor, recognised from the state change
ReceiveStep == pc = "streaming" /\ Len(received') = Len(received) + 1
ScanStep == ReceiveStep /\ ~cancellation_token
CrashStep ==
    pc = "streaming" /\ received' = received /\ error = NoText /\ error' # NoText
NewMessage == ConvertMessage(received'[Len(received')], Len(received'))
NormalEnd == pc = "done" /\ outcome = "return" /\ error = NoText

BackendChunks(fwd) == SelectSeq(fwd, LAMBDA c : c.src > 0)
NonMetadata(fwd) == SelectSeq(fwd, LAMBDA c : c.type # "x_claude_metadata")
ErrorChunks(fwd) == SelectSeq(fwd, LAMBDA c : c.is_error)
Converted(recv) == [i \in 1..Len(recv) |-> ConvertMessage(recv[i], i)]
Forwardable(recv) == SelectSeq(Converted(recv), LAMBDA m : ~IsSkipped(m))
IsContent(raw) ==
    /\ raw.cls = "AssistantMessage" \/ raw.type = "assistant"
    /\ raw.text # NoText
\* a content chunk has been forwarded: the invocation is committed
Committed == \E i \in 1..Len(forwarded) : forwarded[i].src > 0 /\ forwarded[i].text # NoText

RECURSIVE SumSizes(_)
SumSizes(lines) ==
    IF lines = <<>> THEN 0 ELSE ChunkSize(Head(lines)) + SumSizes(Tail(lines))

\* C1 -- Commitment invariant: once a content chunk has been forwarded, a later chunk
\* whose text matches a rate-limit phrase does not make the executor raise
\* WorkerUnavailable; it is surfaced to the caller as an inline error chunk.
C1_Commitment ==
    [][(ScanStep /\ Committed /\ MatchesRateLimit(NewMessage.text))
         => /\ outcome' # "WorkerUnavailableError"
            /\ Len(forwarded') = Len(forwarded) + 1
            /\ forwarded'[Len(forwarded')].is_error]_vars

\* C2 -- Rate-limit gate: a content chunk with a rate-limit phrase that
\* arrives before anything was forwarded is not forwarded, WorkerUnavailable
\* is raised, the invocation is failed and the worker is rate-limited.
C2_RateLimitGate ==
    [][(ScanStep /\ forwarded = <<>> /\ MatchesRateLimit(NewMessage.text))
         => /\ forwarded' = <<>>
            /\ outcome' = "WorkerUnavailableError"
            /\ status' = "failed"
            /\ is_rate_limited(worker_id)']_vars

\* C3 -- Crash classification respects commitment: a backend exception makes
\* the executor raise WorkerUnavailable only if no content chunk was forwarded
\* and the error text is retryable; after a forwarded content chunk it takes
\* the recovery / diagnostic-chunk path.
C3_CrashClassification ==
    [][CrashStep
         => /\ outcome' = "WorkerUnavailableError"
                  => (~Committed /\ is_worker_unavailable(error'))
            /\ Committed
                  => /\ outcome' # "WorkerUnavailableError"
                     /\ pc' = "crash_yielded"
                     /\ Len(forwarded') > Len(forwarded)]_vars

\* C4 -- Crash recovery replay: a non-retryable backend exception after n >= 1
\* cached chunks replays the n cached chunks in cache order, followed by one
\* incomplete_after_crash chunk naming the error when none of them is a
\* completion marker.
C4_CrashReplay ==
    [][(CrashStep /\ ~is_worker_unavailable(error') /\ Len(cache_lines) >= 1)
         => forwarded' = forwarded \o RecoveryChunks(error', TRUE, cache_lines)]_vars

\* C5 -- Timeout path: the cache file is deleted without replay, exactly one
\* timeout_incomplete chunk is forwarded (last), the timeout is re-raised and
\* the invocation ends failed.
C5_TimeoutState ==
    (pc = "timeout_yielded" \/ outcome = "TimeoutError")
      => /\ ~cache_exists
         /\ cache_lines = <<>>
         /\ forwarded = Forwardable(received) \o <<TimeoutChunk>>
         /\ outcome = "TimeoutError" => (pc = "done" /\ status = "failed")

C6_NoCompletionMarker ==
    (/\ NormalEnd
     /\ Len(received) >= 1
     /\ \A k \in 1..Len(received) :
            ~(received[k].type = "result"
              /\ received[k].subtype \in {"complete", "success", "error_max_turns"}))
      => /\ NonMetadata(forwarded)
               = Forwardable(received) \o <<NoCompletionMarkerChunk>>
         /\ status = "completed"

C6_Witness ==
    NormalEnd /\ Len(received) = 2 /\ ~response_complete /\ Len(forwarded) = 3

\* C7 -- Zero-chunk stream: a stream that ends normally with zero chunks is
\* surfaced to the caller as a diagnostic, not returned as an empty success.
C7_ZeroChunks ==
    (NormalEnd /\ received = <<>>)
      => ErrorChunks(forwarded) # <<>>

C10_CacheBoundState ==
    /\ cache_size_bytes <= max_cache_bytes
    /\ SumSizes(cache_lines) <= max_cache_bytes
    /\ cache_exists => SumSizes(cache_lines) = cache_size_bytes

C10_CacheBoundStep ==
    /\ ~cache_enabled => ~cache_enabled'
    /\ ScanStep =>
         /\ (cache_enabled /\ cache_size_bytes + ChunkSize(NewMessage) > max_cache_bytes)
               => (~cache_enabled' /\ cache_lines' = cache_lines)
         /\ (cache_enabled /\ cache_lines' = cache_lines) => ~cache_enabled'
         /\ ~cache_enabled => cache_lines' = cache_lines
         /\ (~cache_enabled' /\ ~RateLimitDetected(NewMessage))
               => /\ outcome' = "none"
                  /\ pc' = "streaming"
                  /\ forwarded' = IF IsSkipped(NewMessage) THEN forwarded
                                  ELSE Append(forwarded, NewMessage)

C10_CacheBound == []C10_CacheBoundState /\ [][C10_CacheBoundStep]_vars

C10_Witness ==
    /\ pc = "streaming"
    /\ ~cache_enabled
    /\ cache_size_bytes = max_cache_bytes
    /\ Len(forwarded) = 3

\* terminal statuses of the Registry
TerminalStatuses == {"completed", "cancelled", "failed"}

\* the chunk-loop check of Receive runs with the signal set
CancelCheckStep == ReceiveStep /\ cancellation_token

\* C11: when the cancellation signal was set before any chunk was forwarded,
\* the next chunk-loop check observes it: that step forwards nothing, ends
\* the executor with CancelledError and marks the invocation cancelled; an
\* invocation that ended this way is cancelled and has no forwarded chunk,
\* and is never completed
C11_CheckStep ==
    (CancelCheckStep /\ forwarded = <<>>) =>
        /\ forwarded' = <<>>
        /\ outcome' = "CancelledError"
        /\ status' = "cancelled"
        /\ pc' = "done"

C11_CancelledState ==
    (outcome = "CancelledError" /\ BackendChunks(forwarded) = <<>>) =>
        /\ status = "cancelled"
        /\ forwarded = <<>>
        /\ pc = "done"

C11_CancellationRace == []C11_CancelledState /\ [][C11_CheckStep]_vars

C11_Witness ==
    /\ outcome = "CancelledError"
    /\ cancellation_token
    /\ forwarded = <<>>
    /\ Len(received) = 1
    /\ status = "cancelled"

\* C12: once the cancellation signal of a running invocation is set, the
\* executor ends with the invocation cancelled, whatever the backend does
\* next (finite form: every ended executor whose signal is set is cancelled)
C12_CancellationLiveness ==
    (pc = "done" /\ cancellation_token) => status = "cancelled"

\* C13: every exit of the executor after create leaves the invocation in a
\* terminal status (finite form: an ended executor is never still running)
C13_TerminatesInRegistry ==
    pc = "done" => status \in TerminalStatuses

\* C14: whenever WorkerUnavailable escapes the executor for a request,
\* streaming or not, the HTTP response of that request has status 503, the
\* header Retry-After: 0 and a body with retry: true
C14_WorkerUnavailableToHttp ==
    (http_pc = "done" /\ executor_raised = "WorkerUnavailableError") =>
        /\ http_status = 503
        /\ <<"Retry-After", "0">> \in http_headers
        /\ http_body.retry = TRUE

\* ----------------------------------------------- Fallback Orchestrator claims
\* tier ids the current call has attempted (resolved, and executed where
\* the resolution succeeded), in order
resolved == [k \in 1..Len(attempts) |-> attempts[k].tier_id]

IsPrefix(a, b) == Len(a) <= Len(b) /\ a = SubSeq(b, 1, Len(a))

\* the chain of the spec: [primary] + configured fallbacks
Chain(tier_id) == <<tier_id>> \o FALLBACK_CHAINS(tier_id)

\* primaries the configuration gives no fallback chain
NoFallbackTiers == {"claude-dsgvo", "openrouter-claude"}

LastAttempt(as) == as[Len(as)]

\* an attempt on tiers[tier_i] that fails / that succeeds
FailStep == fb_pc = "loop" /\ fb_pc' \in {"sleep", "raised"}
CancelStep ==
    fb_pc = "loop" /\ LastAttempt(attempts').error.cls = "CancelledError"
SuccessStep == fb_pc = "loop" /\ fb_pc' = "returned"
CallEnded == fb_pc \in {"returned", "raised"}

failures(tier_id) == provider_health[tier_id].consecutive_failures

\* C15: providers are attempted strictly in the order [primary] + configured
\* fallbacks, each at most once; a call returns the result of the first
\* provider whose execute_fn succeeds, and after that success no further
\* provider is resolved or executed
C15_OrderState ==
    fb_pc # "idle" =>
        /\ IsPrefix(resolved, Chain(primary_tier))
        /\ \A j, k \in 1..Len(attempts) : j # k => resolved[j] # resolved[k]
        /\ \A k \in 1..(Len(attempts) - 1) : attempts[k].error # NoExc
        /\ IF fb_pc = "returned"
           THEN /\ attempts # <<>>
                /\ LastAttempt(attempts).error = NoExc
                /\ LastAttempt(attempts).stage = "execute"
                /\ response = Response(LastAttempt(attempts).tier_id)
           ELSE /\ response = NoResponse
                /\ \A k \in 1..Len(attempts) : attempts[k].error # NoExc

C15_OrderStep ==
    CallEnded => (attempts' = attempts \/ attempts' = <<>>)

C15_FallbackOrder == []C15_OrderState /\ [][C15_OrderStep]_vars

C15_Witness ==
    /\ fb_pc = "returned"
    /\ resolved = <<"claude-premium", "openrouter-claude">>
    /\ response = Response("openrouter-claude")

\* C16: a provider attempt failing with a non-retryable error ends the call
\* at once with that error; no later provider of the chain is resolved or
\* executed
C16_StopStep ==
    /\ (FailStep /\ ~is_retryable_error(LastAttempt(attempts').error)) =>
           /\ fb_pc' = "raised"
           /\ raised' = LastAttempt(attempts').error
    /\ (fb_pc = "raised" /\ ~is_retryable_error(raised)) =>
           (attempts' = attempts \/ attempts' = <<>>)

C16_StopState ==
    (fb_pc = "raised" /\ ~is_retryable_error(raised)) =>
        /\ raised = LastAttempt(attempts).error
        /\ \A k \in 1..(Len(attempts) - 1) :
               is_retryable_error(attempts[k].error)

C16_NonRetryableStop == []C16_StopState /\ [][C16_StopStep]_vars

C16_Witness ==
    /\ fb_pc = "raised"
    /\ primary_tier = "claude-premium"
    /\ resolved = <<"claude-premium">>
    /\ raised = ProviderError(400, <<"upstream", "timeout">>)

\* C17: when every provider of the chain fails with a retryable error, the
\* call raises the error of the last provider attempted, after having
\* attempted every provider of the chain exactly once
C17_ExhaustionState ==
    /\ (fb_pc = "raised" /\ is_retryable_error(raised)) =>
           /\ resolved = Chain(primary_tier)
           /\ \A k \in 1..Len(attempts) : is_retryable_error(attempts[k].error)
           /\ raised = LastAttempt(attempts).error
    /\ fb_pc = "sleep" => Len(attempts) = tier_i /\ tier_i < Len(tiers)
    /\ fb_pc = "loop" => Len(attempts) = tier_i - 1 /\ tier_i <= Len(tiers)

C17_ExhaustionStep ==
    (FailStep /\ is_retryable_error(LastAttempt(attempts').error)) =>
        IF Len(attempts') = Len(Chain(primary_tier))
        THEN fb_pc' = "raised" /\ raised' = LastAttempt(attempts').error
        ELSE fb_pc' = "sleep" /\ raised' = NoExc

C17_ChainExhaustion == []C17_ExhaustionState /\ [][C17_ExhaustionStep]_vars

C17_Witness ==
    /\ fb_pc = "raised"
    /\ resolved = <<"claude-premium", "openrouter-claude">>
    /\ attempts[1].error = ProviderError(503, <<"Service", "Unavailable">>)
    /\ attempts[2].error = Exc("ConnectTimeout", 0, <<"timed", "out">>)
    /\ raised = attempts[2].error

\* C18: within a call every failed attempt increments the attempted
\* provider's consecutive_failures by exactly one, every successful attempt
\* resets it to 0, and no other provider's health changes; from fresh health,
\* primary failing with HTTP 503 and the fallback succeeding returns the
\* fallback's result with consecutive_failures 1 for the primary and 0 for
\* the fallback
C18_HealthStep ==
    /\ fb_pc = "loop" =>
           LET t == tiers[tier_i] IN
           /\ fb_pc' = "returned" => failures(t)' = 0
           /\ (FailStep /\ ~CancelStep) => failures(t)' = failures(t) + 1
           /\ \A u \in Tiers \ {t} : provider_health'[u] = provider_health[u]
    /\ fb_pc # "loop" => provider_health' = provider_health
    /\ ( /\ SuccessStep
          /\ attempts = <<Attempt("claude-premium", "execute",
                             ProviderError(503, <<"Service", "Unavailable">>))>>
          /\ failures("claude-premium") = 1
          /\ ~provider_health["openrouter-claude"].tracked ) =>
           /\ response' = Response("openrouter-claude")
           /\ failures("claude-premium")' = 1
           /\ failures("openrouter-claude")' = 0

C18_HealthAccounting == [][C18_HealthStep]_vars

C18_Witness ==
    /\ fb_pc = "returned"
    /\ response = Response("openrouter-claude")
    /\ attempts[1].error = ProviderError(503, <<"Service", "Unavailable">>)
    /\ failures("claude-premium") = 1
    /\ provider_health["openrouter-claude"] = ProviderHealth(TRUE, 0, NoText)
    /\ ~provider_health["claude-dsgvo"].tracked

\* C19: for a primary without a configured fallback chain no provider other
\* than the primary is ever resolved or executed, whatever the primary raises
C19_NoChainNoFallback ==
    primary_tier \in NoFallbackTiers =>
        /\ Len(attempts) <= 1
        /\ \A k \in 1..Len(attempts) : attempts[k].tier_id = primary_tier
        /\ fb_pc # "sleep"

C19_Witness ==
    /\ primary_tier = "claude-dsgvo"
    /\ fb_pc = "raised"
    /\ is_retryable_error(raised)
    /\ resolved = <<"claude-dsgvo">>

\* C20: when execute_fn raises WorkerUnavailable and another provider remains
\* in the chain, the orchestrator consumes the failure and goes on to the
\* next provider instead of propagating it
C20_WorkerUnavailableConsumed ==
    [][ ( /\ FailStep
          /\ LastAttempt(attempts').error.cls = "WorkerUnavailableError"
          /\ tier_i < Len(tiers) ) =>
            (fb_pc' = "sleep" /\ raised' = NoExc) ]_vars

\* C21: a configuration error raised by resolve_config_fn for a provider ends
\* the call at once with that error, whatever its message text; no fallback
\* provider is attempted
C21_ConfigErrorsNonRetryable ==
    [][ ( /\ fb_pc = "loop"
          /\ LastAttempt(attempts').stage = "resolve" ) =>
            /\ fb_pc' = "raised"
            /\ raised' = LastAttempt(attempts').error ]_vars

\* C22: a cancellation propagating out of execute_fn leaves Provider Health
\* unchanged, ends the call with the cancellation, and no further provider
\* is attempted
C22_CancelStep ==
    /\ CancelStep =>
           /\ provider_health' = provider_health
           /\ fb_pc' = "raised"
           /\ raised' = CancelledError
    /\ (fb_pc = "raised" /\ raised = CancelledError) =>
           (attempts' = attempts \/ attempts' = <<>>)

C22_CancellationNotFailure == [][C22_CancelStep]_vars

C22_Witness ==
    /\ fb_pc = "raised"
    /\ raised = CancelledError
    /\ primary_tier = "claude-premium"
    /\ resolved = <<"claude-premium">>
    /\ \A t \in Tiers : ~provider_health[t].tracked

\* C23: an invocation's status only moves from running to completed,
\* cancelled or failed, and no complete or cancel call changes a terminal
\* status: a second complete(id, status) with another status keeps the first.
C23_Step ==
    \A id \in SessionIds :
        /\ reg_call'.op \in {"complete", "cancel"} =>
               /\ sessions[id].status \in TerminalStatuses =>
                      sessions'[id].status = sessions[id].status
               /\ sessions'[id].status # sessions[id].status =>
                      /\ sessions[id].status = "running"
                      /\ sessions'[id].status \in TerminalStatuses
                      /\ reg_call' = RegCall("complete", id, sessions'[id].status, TRUE)
C23_TerminalAbsorbing == [][C23_Step]_vars

\* a second complete with another status was made and the first one stayed
C23_Witness ==
    /\ reg_call.op = "complete"
    /\ ~reg_call.ret
    /\ sessions[reg_call.id].status \in TerminalStatuses
    /\ sessions[reg_call.id].status # reg_call.arg

\* C24: cancel(id) sets the cancellation signal and succeeds iff the
\* invocation exists and is running; for an unknown id or a terminal
\* invocation it fails (404 / 400 at the endpoint) and sets no signal.
C24_Step ==
    \A id \in SessionIds :
        (reg_call'.op = "cancel" /\ reg_call'.id = id) =>
            /\ reg_call'.ret <=> sessions[id].status = "running"
            /\ cancel_status' = 200 <=> sessions[id].status = "running"
            /\ sessions[id].status = "running" =>
                   sessions'[id].cancellation_token
            /\ sessions[id].status # "running" =>
                   /\ sessions'[id] = sessions[id]
                   /\ cancel_status' = IF sessions[id] = NoSession THEN 404 ELSE 400
            /\ \A other \in SessionIds \ {id} : sessions'[other] = sessions[other]
C24_CancelIffRunning == [][C24_Step]_vars

\* a cancel of a terminal invocation failed after one of a running one succeeded
C24_Witness ==
    /\ reg_call = RegCall("cancel", 1, "none", FALSE)
    /\ cancel_status = 400
    /\ sessions[1] = Session("completed", FALSE)
    /\ sessions[2] = Session("running", TRUE)


\* a step that is the call op on the tracker for worker w
TrackerCall(op, w) ==
    /\ rl_call'.op = op
    /\ rl_call'.worker = w
    /\ UNCHANGED <<now, advances>>
    /\ \/ rl_call' # rl_call
       \/ tracker_rate_limits' # tracker_rate_limits

\* C25: with a record T for w written by mark_rate_limited, is_rate_limited(w)
\* returns true before T and false at or after T, purging the record, for
\* every message; neither mark_rate_limited nor is_rate_limited raises.
C25_Step ==
    \A w \in Workers :
        /\ TrackerCall("mark_rate_limited", w) =>
               /\ rl_call'.raised = "None"
               /\ tracker_rate_limits'[w] = rl_call'.reset_time
               /\ rl_call'.reset_time.set
        /\ (TrackerCall("is_rate_limited", w) /\ tracker_rate_limits[w].set) =>
               /\ rl_call'.raised = "None"
               /\ rl_call'.flag <=> now < tracker_rate_limits[w].t
               /\ ~rl_call'.flag => tracker_rate_limits'[w] = NoDateTime
C25_RateLimitLifecycle == [][C25_Step]_vars

\* C26: a value returned by get_retry_after, or computed by RateLimitError
\* from a reset time, is at least 60 seconds.
C26_Step ==
    \A w \in Workers \cup {"None"} :
        ( /\ \/ TrackerCall("get_retry_after", w)
             \/ TrackerCall("RateLimitError", w)
          /\ rl_call'.raised = "None"
          /\ rl_call'.seconds # -1 ) =>
              rl_call'.seconds >= 60
C26_RetryAfterFloor == [][C26_Step]_vars

\* get_retry_after returned the floor for a record whose reset time is past
C26_Witness ==
    /\ rl_call.op = "get_retry_after"
    /\ rl_call.raised = "None"
    /\ rl_call.seconds = 60
    /\ tracker_rate_limits[rl_call.worker].set
    /\ tracker_rate_limits[rl_call.worker].t < now

\* C27: when the caller of a streaming request is gone while the request's
\* Invocation is running, the Disconnect Monitor sets that Invocation's
\* cancellation signal, however late the first chunk arrived: the monitor
\* does not leave such an Invocation behind without the signal.
C27_DisconnectLiveness ==
    \A r \in Requests :
        ( /\ invocations[r].status = "running"
          /\ streaming_started[r]
          /\ ~connected[r] ) =>
              \/ invocations[r].cancellation_token
              \/ mon_pc[r] \in {"waiting", "polling"}

\* C28: once every run_completion call that started has finished, on
\* whatever exit path and under whatever interleaving, the process
\* environment is what it was before the first one started.
C28_EnvironmentRestored ==
    (\A r \in Requests : env_pc[r] # "running") => environ = EnvAtStart

\* the same for requests that all got past the setup
C28_RestoredWithoutSetupFailure ==
    (\A r \in Requests : env_pc[r] \notin {"running", "setup_failed"}) =>
        environ = EnvAtStart

\* C29: a SystemMessage received from the backend is never yielded to the
\* caller: no forwarded chunk comes from a SystemMessage.
C29_SystemNeverForwarded ==
    \A i \in 1..Len(forwarded) :
        forwarded[i].src > 0 =>
            received[forwarded[i].src].cls # "SystemMessage"

\* C30: on every exit path the Registry's terminal status update comes after
\* the last chunk: while the generator is suspended at a yield the Invocation
\* is still running, and no chunk is forwarded once its status is terminal.
C30_State == pc \in {"streaming", "timeout_yielded", "crash_yielded"} =>
                 status = "running"
C30_Step == status \in TerminalStatuses => forwarded' = forwarded
C30_TerminalAfterLastChunk == []C30_State /\ [][C30_Step]_vars

\* a crash after a forwarded backend chunk: a diagnostic chunk was forwarded
\* and the Invocation then became failed
C30_Witness ==
    /\ pc = "done"
    /\ status = "failed"
    /\ outcome = "return"
    /\ BackendChunks(forwarded) # <<>>
    /\ ErrorChunks(forwarded) # <<>>

C32_State ==
    /\ error # WriteError
    /\ \A i \in 1..Len(forwarded) : forwarded[i].original_error # WriteError
C32_Step ==
    (pc = "streaming" /\ received' = received /\ error' = error /\ pc' = "done"
        /\ outcome' = "return") =>
        /\ status' = "completed"
        /\ BackendChunks(forwarded') = BackendChunks(forwarded)
        /\ ErrorChunks(forwarded') \in
               { ErrorChunks(forwarded),
                 Append(ErrorChunks(forwarded), NoCompletionMarkerChunk) }
C32_FinalSummaryIsolation == []C32_State /\ [][C32_Step]_vars

\* a stream completed although both writes failed
C32_Witness ==
    /\ pc = "done"
    /\ outcome = "return"
    /\ status = "completed"
    /\ error = NoText
    /\ ~final_written
    /\ metadata_status # "completed"
    /\ BackendChunks(forwarded) # <<>>

\* C33: is_retryable_error(e) is true exactly for a ProviderError with a
\* status code in {429, 500, 502, 503, 504}, for an httpx connect error,
\* connect timeout or read timeout, and for a RuntimeError that is no
\* ProviderError whose lower-cased message contains one of "429", "500",
\* "502", "503", "504", "timeout"; so a failure with a fallback tier left is
\* followed by the backoff exactly for these errors.
C33_Retryable(e) ==
    \/ /\ "ProviderError" \in Bases(e.cls)
       /\ e.status_code \in {429, 500, 502, 503, 504}
    \/ Bases(e.cls) \cap {"ConnectError", "ConnectTimeout", "ReadTimeout"} # {}
    \/ /\ "RuntimeError" \in Bases(e.cls)
       /\ "ProviderError" \notin Bases(e.cls)
       /\ \E k \in 1..Len(e.msg) :
              Lower(e.msg[k]) \in {"429", "500", "502", "503", "504", "timeout"}
C33_State ==
    \A e \in ExecuteErrors \cup ResolveErrors \cup OtherErrors :
        is_retryable_error(e) <=> C33_Retryable(e)
C33_Step ==
    (FailStep /\ ~CancelStep /\ tier_i < Len(tiers)) =>
        (fb_pc' = "sleep" <=> C33_Retryable(LastAttempt(attempts').error))
C33_RetryableClassification == []C33_State /\ [][C33_Step]_vars

\* a ProviderError with status 400 whose message contains "timeout" ended
\* the call although a fallback tier was left
C33_Witness ==
    /\ fb_pc = "raised"
    /\ raised.cls = "ProviderError"
    /\ raised.status_code = 400
    /\ Contains(LowerText(raised.msg), <<"timeout">>)
    /\ tiers = <<"claude-premium", "openrouter-claude">>
    /\ tier_i = 1
    /\ Len(attempts) = 1

\* C34: the Disconnect Monitor passes its gate, polls and cancels only after
\* streaming_started is set; a monitor whose wait timed out stays out: it
\* polls nothing and cancels nothing.
C34_State ==
    \A r \in Requests :
        mon_pc[r] \in {"polling", "no_session", "done"} => streaming_started[r]
C34_Step ==
    /\ \A r \in Requests :
           /\ mon_pc[r] = "timed_out" => mon_pc'[r] = "timed_out"
           /\ (mon_pc'[r] = "done" /\ mon_pc[r] # "done") =>
                  (mon_pc[r] = "polling" /\ streaming_started[r])
    /\ \A x \in Requests :
           invocations'[x].cancellation_token # invocations[x].cancellation_token =>
               \E r \in Requests :
                   /\ mon_pc[r] = "polling" /\ mon_pc'[r] = "done"
                   /\ streaming_started[r]
                   /\ cli_session_for_disconnect[r] = x
C34_StartGate == []C34_State /\ [][C34_Step]_vars

\* a monitor timed out, the first chunk came later, the caller went away:
\* nothing was cancelled
C34_Witness ==
    /\ mon_pc[1] = "timed_out"
    /\ streaming_started[1]
    /\ ~connected[1]
    /\ invocations[1] = Session("running", FALSE)
    /\ req_pc[2] = "idle"

\* C35: in every reachable state a provider's status is up iff
\* consecutive_failures = 0, degraded iff it is 1 or 2, down iff it is >= 3,
\* in the tracker and in every entry /health reported; the count is never
\* negative; and the provider of the last recorded success is up.
C35_Derived(st, consecutive_failures) ==
    /\ consecutive_failures >= 0
    /\ st = "up" <=> consecutive_failures = 0
    /\ st = "degraded" <=> consecutive_failures \in {1, 2}
    /\ st = "down" <=> consecutive_failures >= 3
C35_StatusDerivation ==
    /\ \A t \in Tiers :
           /\ C35_Derived(ProviderStatus(provider_health[t]),
                          provider_health[t].consecutive_failures)
           /\ health_report[t] # NoHealthEntry =>
                  C35_Derived(health_report[t].status,
                              health_report[t].consecutive_failures)
    /\ health_call.op = "record_success" =>
           /\ provider_health[health_call.tier_id].tracked
           /\ ProviderStatus(provider_health[health_call.tier_id]) = "up"

\* /health reported the premium provider down, one success was recorded for
\* it and it is up, while the other provider is degraded
C35_Witness ==
    /\ health_call = HealthCall("record_success", "claude-premium")
    /\ health_report["claude-premium"].status = "down"
    /\ ProviderStatus(provider_health["claude-premium"]) = "up"
    /\ ProviderStatus(provider_health["openrouter-claude"]) = "degraded"

\* C36: get_retry_after(w) returns a value exactly when is_rate_limited(w)
\* would return true: a number of seconds while the record of w is in the
\* future, none when w has no record or its record has expired (records with
\* a reset time both calls can compare with the clock).
C36_Step ==
    \A w \in Workers :
        ( /\ TrackerCall("get_retry_after", w)
          /\ ~Mixed(tracker_rate_limits[w]) ) =>
              /\ rl_call'.raised = "None"
              /\ rl_call'.seconds # -1 <=>
                     ( /\ tracker_rate_limits[w].set
                       /\ now < tracker_rate_limits[w].t )
C36_TrackerConsistency == [][C36_Step]_vars

\* C38: when the executor has finished, the on-disk metadata record says
\* completed only for an Invocation the Registry marks completed, never for
\* one that ended failed or cancelled.
C38_PersistedStatusAgrees ==
    (pc = "done" /\ metadata_status = "completed") => status = "completed"

\* C37: the Disconnect Monitor of a request only ever cancels the Invocation
\* its own request's executor created.
C37_OwnInvocation ==
    \A r \in Requests :
        mon_pc[r] = "done" => cli_session_for_disconnect[r] = r

====
